---- MODULE Spec2Model ----
(***************************************************************************)
(* TechCrunch news bot (main.py): the polling loop run_bot /               *)
(* fetch_and_send_news, the shared watermark last_sent_article_date and    *)
(* the POST /start trigger.                                                *)
(*                                                                         *)
(* asyncio runs the tasks cooperatively: the code between two awaits is    *)
(* one atomic step.  Every action below is the return of one await (feed   *)
(* fetch, Telegram send, sleep) followed by the synchronous code up to the *)
(* next await of the same task.                                            *)
(***************************************************************************)
EXTENDS Integers, Sequences, FiniteSets, TLC

\* ------------------------------------------------------------------ bounds
MaxFeedLen == 3
MaxDate == 2
MaxTasks == 2

\* ------------------------------------------------------- values and inputs
\* Python's None, for last_sent_article_date and for published_parsed.
\* An optional value is <<>> (None) or <<v>>.
None == <<>>

Some(v) == <<v>>

\* Offset of the local zone to UTC, in the time unit of the model: mktime
\* reads the UTC struct_time published_parsed as local time.
LocalUtcOffset == 1

INTERESTED_CATEGORIES ==
    {"AI", "Robotics", "Tech Startups", "Biotech & Health", "Enterprise",
     "Security", "Privacy"}

\* Raw tag terms of feed entries (as feedparser hands them over).
RawTagLists == { <<"Sports", "<b>AI</b>">>, <<"Biotech & Health">> }

\* published_parsed of an entry: a UTC time, or None (no parseable date).
PublishedValues == {None} \cup {Some(t) : t \in 1..MaxDate}

\* A feed entry.  The link identifies the article; one article has one
\* publication date and one tag list.
EntryOf(pp, tl) == [link |-> <<pp, tl>>, published_parsed |-> pp, tags |-> tl]

Entries == {EntryOf(pp, tl) : pp \in PublishedValues, tl \in RawTagLists}

RECURSIVE SeqsUpTo(_, _)
SeqsUpTo(S, n) ==
    IF n = 0 THEN {<<>>}
    ELSE LET shorter == SeqsUpTo(S, n - 1)
         IN  shorter \cup {Append(s, x) : s \in shorter, x \in S}

Distinct(s) == \A i, j \in 1..Len(s) : i # j => s[i].link # s[j].link

\* feed.entries as feedparser.parse returns it: any entries in any order.
Feeds == {f \in SeqsUpTo(Entries, MaxFeedLen) : Distinct(f)}

Tasks == 1..MaxTasks

\* ---------------------------------------------------------- pure functions
\* clean_html (main.py 45-49): BeautifulSoup get_text drops the markup,
\* html.escape then escapes & < > and quotes.
GetText(raw) == IF raw = "<b>AI</b>" THEN "AI" ELSE raw

HtmlEscape(text) ==
    IF text = "Biotech & Health" THEN "Biotech &amp; Health" ELSE text

clean_html(raw_html) == HtmlEscape(GetText(raw_html))

\* get_categories (main.py 61-67)
get_categories(entry) ==
    {clean_html(entry.tags[i]) : i \in 1..Len(entry.tags)}

IsInterestedBeforeEscape(entry) ==
    {GetText(entry.tags[i]) : i \in 1..Len(entry.tags)}
        \cap INTERESTED_CATEGORIES # {}

\* main.py 88
IsInterested(entry) == get_categories(entry) \cap INTERESTED_CATEGORIES # {}

\* mktime(entry.published_parsed) raises on None (main.py 82, 105).
DateRaises(entry) == entry.published_parsed = None

\* datetime.fromtimestamp(mktime(published_parsed), tz=utc): mktime takes
\* the struct_time as local time, fromtimestamp keeps the instant.
Mktime(tm) == tm - LocalUtcOffset

FromTimestamp(secs) == secs

EntryDate(entry) == Some(FromTimestamp(Mktime(entry.published_parsed[1])))

EligibleOrEqual(entry_date, last) == last = None \/ entry_date[1] >= last[1]

\* main.py 84
Eligible(entry_date, last) == last = None \/ entry_date[1] > last[1]

\* reversed(feed.entries): the k-th entry of the iteration.
ReversedAt(es, k) == es[Len(es) - k + 1]

FallbackWheneverNoneFound(found_interested, last) == ~found_interested

\* main.py 102
FallbackNeeded(found_interested, last) == ~found_interested /\ last = None

\* main.py 104: the entry the fallback loop sends before its break.
FallbackEntry(es) == ReversedAt(es, 1)

WatermarkNeverAdvanced(result, entry_date, last) == last

WatermarkOnAnyResponse(result, entry_date, last) ==
    IF result # "raised" THEN entry_date ELSE last

\* main.py 93-97, 108-112: the watermark after a send returned.
WatermarkAfterSend(result, entry_date, last) ==
    IF result = "ok" THEN entry_date ELSE last

\* run_bot (main.py 127, 130): the await reached when the cycle returns or
\* raises.
AfterCycle == "sleep"

AfterFaultSleepsFiveMinutes == "sleep"

AfterFaultEndsTask == "done"

AfterFault == "backoff"

AfterSendFallbackBreaksAtOnce(pass) == IF pass = "main" THEN "pace" ELSE "sleep"

\* main.py 98-100, 113-115: a failed send is logged and the pacing sleep
\* follows.
AfterSend(pass) == IF pass = "main" THEN "pace" ELSE "fbpace"

\* main.py 102-116 up to the await of the fallback send.
AfterMainPass(es, last, found) ==
    IF FallbackNeeded(found, last)
    THEN IF DateRaises(FallbackEntry(es))
         THEN [pc |-> AfterFault, idx |-> 0, found |-> found, fault |-> "date"]
         ELSE [pc |-> "fbsend", idx |-> 0, found |-> found, fault |-> "none"]
    ELSE [pc |-> AfterCycle, idx |-> 0, found |-> found, fault |-> "none"]

RECURSIVE MainPassSkippingUndated(_, _, _, _)
MainPassSkippingUndated(es, k, last, found) ==
    IF k > Len(es) THEN AfterMainPass(es, last, found)
    ELSE LET entry == ReversedAt(es, k) IN
         IF DateRaises(entry)
         THEN MainPassSkippingUndated(es, k + 1, last, found)
         ELSE IF Eligible(EntryDate(entry), last) /\ IsInterested(entry)
              THEN [pc |-> "send", idx |-> k, found |-> TRUE, fault |-> "none"]
              ELSE MainPassSkippingUndated(es, k + 1, last, found)

\* main.py 81-92: the for loop from its k-th iteration up to the next await
\* (the send of a matching entry), the raise of a date conversion, or the
\* end of the loop.
RECURSIVE MainPass(_, _, _, _)
MainPass(es, k, last, found) ==
    IF k > Len(es) THEN AfterMainPass(es, last, found)
    ELSE LET entry == ReversedAt(es, k) IN
         IF DateRaises(entry)
         THEN [pc |-> AfterFault, idx |-> k, found |-> found, fault |-> "date"]
         ELSE IF Eligible(EntryDate(entry), last) /\ IsInterested(entry)
              THEN [pc |-> "send", idx |-> k, found |-> TRUE, fault |-> "none"]
              ELSE MainPass(es, k + 1, last, found)

\* ------------------------------------------------------------------- state
VARIABLES
    last_sent_article_date, \* the module-level watermark (main.py 41)
    pc,               \* per task: the await it is suspended at
    entries,          \* per task: feed.entries of its current cycle
    idx,              \* per task: position in reversed(feed.entries)
    found_interested, \* per task: the local flag (main.py 79)
    \* history, not program state
    fetched,          \* per task: outcome of its latest fetch
    fault,            \* per task: what sent it to the backoff sleep
    attempts,         \* per task: the sends of its current cycle
    wm0,              \* per task: the watermark when the cycle began
    rerun,            \* per task: this cycle saw the feed of the previous one
    prevFailed,       \* per task: a send of the previous cycle failed
    delivered,        \* links acknowledged ok at least once
    redelivered       \* links acknowledged ok more than once

vars == <<last_sent_article_date, pc, entries, idx, found_interested,
          fetched, fault, attempts, wm0, rerun, prevFailed,
          delivered, redelivered>>

hist == <<fetched, fault, attempts, wm0, rerun, prevFailed,
          delivered, redelivered>>

SendResults == {"ok", "not_ok", "raised"}

Failed(result) == result \in {"not_ok", "raised"}

Init ==
    /\ last_sent_article_date = None
    /\ pc = [p \in Tasks |-> "idle"]
    /\ entries = [p \in Tasks |-> <<>>]
    /\ idx = [p \in Tasks |-> 0]
    /\ found_interested = [p \in Tasks |-> FALSE]
    /\ fetched = [p \in Tasks |-> "none"]
    /\ fault = [p \in Tasks |-> "none"]
    /\ attempts = [p \in Tasks |-> <<>>]
    /\ wm0 = [p \in Tasks |-> None]
    /\ rerun = [p \in Tasks |-> FALSE]
    /\ prevFailed = [p \in Tasks |-> FALSE]
    /\ delivered = {}
    /\ redelivered = {}

\* ----------------------------------------------------------------- actions
StartBotIfNoneRunning(p) ==
    /\ \A q \in Tasks : pc[q] = "idle"
    /\ pc' = [pc EXCEPT ![p] = "fetch"]
    /\ UNCHANGED <<last_sent_article_date, entries, idx, found_interested,
                   fetched, fault, attempts, wm0, rerun, prevFailed,
                   delivered, redelivered>>

\* POST /start (main.py 137-141): the background task run_bot starts and
\* reaches the await of its first fetch.  Tasks are numbered in the order of
\* their start.
StartBot(p) ==
    /\ pc[p] = "idle"
    /\ \A q \in Tasks : q < p => pc[q] # "idle"
    /\ pc' = [pc EXCEPT ![p] = "fetch"]
    /\ UNCHANGED <<last_sent_article_date, entries, idx, found_interested, hist>>

\* An entry of `attempts`: the entry sent, its position k in the reversed
\* iteration, the pass, the watermark when the send began and the result.
Attempt(entry, k, pass, before) ==
    [entry |-> entry, k |-> k, pass |-> pass, before |-> before,
     result |-> "pending"]

\* Moves task p to the await that `r` (a result of MainPass) names; a send
\* await records the pending attempt.
Goto(p, r, es, pass_attempts) ==
    /\ pc' = [pc EXCEPT ![p] = r.pc]
    /\ idx' = [idx EXCEPT ![p] = r.idx]
    /\ found_interested' = [found_interested EXCEPT ![p] = r.found]
    /\ fault' = [fault EXCEPT ![p] = r.fault]
    /\ attempts' = [attempts EXCEPT ![p] =
          IF r.pc = "send"
          THEN Append(pass_attempts,
                      Attempt(ReversedAt(es, r.idx), r.idx, "main",
                              last_sent_article_date))
          ELSE IF r.pc = "fbsend"
          THEN Append(pass_attempts,
                      Attempt(FallbackEntry(es), 1, "fallback",
                              last_sent_article_date))
          ELSE pass_attempts]

\* await fetch_feed raises (main.py 74): run_bot catches it (128-130).
FetchRaises(p) ==
    /\ pc[p] = "fetch"
    /\ ~rerun[p]
    /\ pc' = [pc EXCEPT ![p] = AfterFault]
    /\ fetched' = [fetched EXCEPT ![p] = "raised"]
    /\ fault' = [fault EXCEPT ![p] = "fetch"]
    /\ UNCHANGED <<last_sent_article_date, entries, idx, found_interested,
                   attempts, wm0, rerun, prevFailed, delivered, redelivered>>

\* await fetch_feed returns and feedparser.parse yields the entries f
\* (main.py 74-92, 102-107, 117-118).  In a rerun the feed is the one of the
\* previous cycle.
FetchReturnsFrom(p, feeds) ==
    /\ pc[p] = "fetch"
    /\ \E f \in (IF rerun[p] THEN {entries[p]} ELSE feeds) :
        /\ entries' = [entries EXCEPT ![p] = f]
        /\ fetched' = [fetched EXCEPT ![p] =
              IF f = <<>> THEN "empty" ELSE "entries"]
        /\ IF f = <<>>
           THEN Goto(p, [pc |-> AfterCycle, idx |-> 0, found |-> FALSE,
                         fault |-> "none"], f, <<>>)
           ELSE Goto(p, MainPass(f, 1, last_sent_article_date, FALSE), f, <<>>)
    /\ UNCHANGED <<last_sent_article_date, wm0, rerun, prevFailed,
                   delivered, redelivered>>

FetchReturns(p) == FetchReturnsFrom(p, Feeds)

\* The send task p awaits returns with `result`: acknowledged ok, acknowledged
\* not ok, or an exception (main.py 92-100 and 107-115).
SendDone(p, pass, result) ==
    LET n == Len(attempts[p])
        entry == attempts[p][n].entry
    IN  /\ last_sent_article_date' =
              WatermarkAfterSend(result, EntryDate(entry), last_sent_article_date)
        /\ pc' = [pc EXCEPT ![p] = AfterSend(pass)]
        /\ attempts' = [attempts EXCEPT ![p][n].result = result]
        /\ delivered' =
              IF result = "ok" THEN delivered \cup {entry.link} ELSE delivered
        /\ redelivered' =
              IF result = "ok" /\ entry.link \in delivered
              THEN redelivered \cup {entry.link} ELSE redelivered
        /\ UNCHANGED <<entries, idx, found_interested, fetched, fault, wm0,
                       rerun, prevFailed>>

SendReturns(p) ==
    /\ pc[p] = "send"
    /\ \E result \in SendResults : SendDone(p, "main", result)

FallbackSendReturns(p) ==
    /\ pc[p] = "fbsend"
    /\ \E result \in SendResults : SendDone(p, "fallback", result)

\* asyncio.sleep(60) after a send of the main pass returns (main.py 100):
\* the for loop goes on with the next entry.
PaceReturns(p) ==
    /\ pc[p] = "pace"
    /\ Goto(p, MainPass(entries[p], idx[p] + 1, last_sent_article_date,
                        found_interested[p]), entries[p], attempts[p])
    /\ UNCHANGED <<last_sent_article_date, entries, fetched, wm0, rerun,
                   prevFailed, delivered, redelivered>>

\* asyncio.sleep(60) after the fallback send returns (main.py 115-116): break,
\* and fetch_and_send_news returns to run_bot.
FallbackPaceReturns(p) ==
    /\ pc[p] = "fbpace"
    /\ pc' = [pc EXCEPT ![p] = AfterCycle]
    /\ UNCHANGED <<last_sent_article_date, entries, idx, found_interested, hist>>

\* run_bot calls fetch_and_send_news again (main.py 123-125) and the task
\* awaits the fetch.  The locals of the previous call are gone.  Until that
\* fetch the feed server either leaves the document as the previous cycle
\* saw it (a rerun) or publishes another one.
NextCycle(p) ==
    /\ pc' = [pc EXCEPT ![p] = "fetch"]
    /\ idx' = [idx EXCEPT ![p] = 0]
    /\ found_interested' = [found_interested EXCEPT ![p] = FALSE]
    /\ fault' = [fault EXCEPT ![p] = "none"]
    /\ attempts' = [attempts EXCEPT ![p] = <<>>]
    /\ wm0' = [wm0 EXCEPT ![p] = last_sent_article_date]
    /\ prevFailed' = [prevFailed EXCEPT ![p] =
          \E i \in 1..Len(attempts[p]) : Failed(attempts[p][i].result)]
    /\ \E same \in BOOLEAN :
        /\ same => fetched[p] \in {"empty", "entries"}
        /\ rerun' = [rerun EXCEPT ![p] = same]
        /\ entries' = [entries EXCEPT ![p] = IF same THEN entries[p] ELSE <<>>]
    /\ UNCHANGED <<last_sent_article_date, fetched, delivered, redelivered>>

\* asyncio.sleep(300) returns (main.py 127).
SleepReturns(p) ==
    /\ pc[p] = "sleep"
    /\ NextCycle(p)

\* asyncio.sleep(60) of the except branch returns (main.py 130).
BackoffReturns(p) ==
    /\ pc[p] = "backoff"
    /\ NextCycle(p)

TaskStep(p) ==
    \/ FetchRaises(p)
    \/ FetchReturns(p)
    \/ SendReturns(p)
    \/ FallbackSendReturns(p)
    \/ PaceReturns(p)
    \/ FallbackPaceReturns(p)
    \/ SleepReturns(p)
    \/ BackoffReturns(p)

\* One polling loop: POST /start is called once.
StartOnce(p) ==
    /\ \A q \in Tasks : pc[q] = "idle"
    /\ StartBot(p)

Next == \E p \in Tasks : StartOnce(p) \/ TaskStep(p)

Spec == Init /\ [][Next]_vars

\* Several polling loops: every POST /start adds a task (main.py 137-141
\* has no guard).  The loops share last_sent_article_date; each fetches for
\* itself.  The feeds of this specification are the shorter ones.
MaxConcurrentFeedLen == 1

ConcurrentFeeds == {f \in Feeds : Len(f) <= MaxConcurrentFeedLen}

ConcurrentFetchReturns(p) == FetchReturnsFrom(p, ConcurrentFeeds)

ConcurrentTaskStep(p) ==
    \/ FetchRaises(p)
    \/ ConcurrentFetchReturns(p)
    \/ SendReturns(p)
    \/ FallbackSendReturns(p)
    \/ PaceReturns(p)
    \/ FallbackPaceReturns(p)
    \/ SleepReturns(p)
    \/ BackoffReturns(p)

ConcurrentNext == \E p \in Tasks : StartBot(p) \/ ConcurrentTaskStep(p)

ConcurrentSpec == Init /\ [][ConcurrentNext]_vars

\* The event loop resumes a task whose await has returned, and network calls
\* and sleeps return.
LiveSpec == Spec /\ \A p \in Tasks : WF_vars(TaskStep(p))

\* ------------------------------------------------------- claim vocabulary
Dated(entry) == ~DateRaises(entry)

\* The cycle of task p saw a non-empty feed and has ended, by returning to
\* run_bot (sleep) or by raising into it (backoff).
CycleOver(p) == fetched[p] = "entries" /\ pc[p] \in {"sleep", "backoff"}

AttemptsOf(p, pass) ==
    {n \in 1..Len(attempts[p]) : attempts[p][n].pass = pass}

Attempted(p, entry) ==
    \E n \in 1..Len(attempts[p]) : attempts[p][n].entry = entry

FeedEntries(p) == {entries[p][i] : i \in 1..Len(entries[p])}

\* The feed of task p is not newest-first.
OutOfOrder(p) ==
    \E i, j \in 1..Len(entries[p]) :
        /\ i < j
        /\ Dated(entries[p][i]) /\ Dated(entries[p][j])
        /\ EntryDate(entries[p][i])[1] < EntryDate(entries[p][j])[1]

\* ------------------------------------------------------------------ claims
\* C1: with one polling loop, no article (link) is acknowledged ok more than
\* once, over any cycles, feeds, send results and mid-cycle faults.
C1_NoDuplicateDelivery == redelivered = {}

\* A rerun cycle after a failed send has ended: it sent again, and it passed
\* over an article of its feed that had been delivered before.
C1_Witness ==
    \E p \in Tasks :
        /\ CycleOver(p) /\ rerun[p] /\ prevFailed[p]
        /\ attempts[p] # <<>>
        /\ \E e \in FeedEntries(p) : e.link \in delivered /\ ~Attempted(p, e)

\* C2: with one polling loop the watermark, once set, never becomes smaller
\* and never returns to None, whatever the feed order and the send results.
C2_WatermarkMonotonic ==
    [][last_sent_article_date # None =>
          /\ last_sent_article_date' # None
          /\ last_sent_article_date'[1] >= last_sent_article_date[1]]_vars

\* The watermark was set when the cycle began and the cycle advanced it, on
\* a feed that is not newest-first.
C2_Witness ==
    \E p \in Tasks :
        /\ wm0[p] # None /\ last_sent_article_date # None
        /\ last_sent_article_date[1] > wm0[p][1]
        /\ OutOfOrder(p)

\* C3: in a cycle, every feed entry whose tags intersect the allowed set and
\* whose published_at is after the watermark the cycle began with gets
\* exactly one delivery attempt, and the attempts of the cycle are in
\* increasing published_at order.
C3_OneAttemptEachInDateOrder ==
    \A p \in Tasks : CycleOver(p) =>
        /\ \A e \in FeedEntries(p) :
              (Dated(e) /\ IsInterested(e) /\ Eligible(EntryDate(e), wm0[p]))
              => Cardinality({n \in AttemptsOf(p, "main") :
                                 attempts[p][n].entry = e}) = 1
        /\ \A m, n \in AttemptsOf(p, "main") :
              m < n => EntryDate(attempts[p][m].entry)[1]
                         < EntryDate(attempts[p][n].entry)[1]

\* C4: in a cycle with a non-empty feed the fallback is attempted exactly
\* when no matching eligible entry was found and the watermark is unset; it
\* is attempted once, and an acknowledged fallback sets the watermark to the
\* date of the entry sent.
C4_FallbackTrigger ==
    \A p \in Tasks : CycleOver(p) =>
        /\ (AttemptsOf(p, "fallback") # {})
              <=> (AttemptsOf(p, "main") = {} /\ wm0[p] = None)
        /\ Cardinality(AttemptsOf(p, "fallback")) <= 1
        /\ \A n \in AttemptsOf(p, "fallback") :
              attempts[p][n].result = "ok"
              => last_sent_article_date = EntryDate(attempts[p][n].entry)

\* C5: the entry the fallback sends is the newest one, the first entry of
\* feed.entries in its original order.
C5_FallbackSendsNewest ==
    \A p \in Tasks : \A n \in AttemptsOf(p, "fallback") :
        attempts[p][n].entry = entries[p][1]

NextMatch(p, k, last) ==
    LET later == {j \in (k + 1)..Len(entries[p]) :
                     LET e == ReversedAt(entries[p], j)
                     IN  Dated(e) /\ IsInterested(e)
                         /\ Eligible(EntryDate(e), last)}
    IN  IF later = {} THEN 0
        ELSE CHOOSE j \in later : \A i \in later : j <= i

\* C7: a failed send of a matched entry (ok false, or an exception) leaves
\* the watermark as it was, does not abort the cycle, and the next matched
\* eligible entry of the cycle is still attempted.
C7_FailedSendDoesNotStopCycle ==
    \A p \in Tasks : \A n \in AttemptsOf(p, "main") :
        Failed(attempts[p][n].result) =>
            /\ (n = Len(attempts[p]) /\ pc[p] = "pace")
                  => last_sent_article_date = attempts[p][n].before
            /\ n < Len(attempts[p])
                  => attempts[p][n + 1].before = attempts[p][n].before
            /\ CycleOver(p) =>
                  LET j == NextMatch(p, attempts[p][n].k, attempts[p][n].before)
                  IN  j # 0 => \E m \in AttemptsOf(p, "main") :
                                  m > n /\ attempts[p][m].k = j

\* C8: an entry without a parseable date is skipped; the cycle is not
\* aborted, and every other entry is processed: a dated matching entry
\* still after the watermark when the cycle ends has been attempted.
C8_MalformedEntrySkipped ==
    \A p \in Tasks : CycleOver(p) =>
        /\ fault[p] # "date"
        /\ \A e \in FeedEntries(p) :
              (Dated(e) /\ IsInterested(e)
                 /\ Eligible(EntryDate(e), last_sent_article_date))
              => Attempted(p, e)

\* The fetch of the current cycle of task p failed: it raised, or the parse
\* gave no entries; the cycle has ended.
FetchFailed(p) ==
    fetched[p] \in {"raised", "empty"} /\ pc[p] \in {"sleep", "backoff", "done"}

\* C9 as claimed: a failed fetch (exception or empty entry set) makes no
\* delivery attempt, leaves the watermark, and goes to the cycle sleep, not
\* to the error backoff.
C9_FetchFailureSleeps ==
    \A p \in Tasks : FetchFailed(p) =>
        /\ attempts[p] = <<>>
        /\ last_sent_article_date = wm0[p]
        /\ pc[p] = "sleep"

\* C9 as amended: a failed fetch makes no delivery attempt and leaves the
\* watermark; an empty entry set goes to the cycle sleep, an exception goes
\* to the error backoff.
C9_FetchFailureSleepsOrBacksOff ==
    \A p \in Tasks : FetchFailed(p) =>
        /\ attempts[p] = <<>>
        /\ last_sent_article_date = wm0[p]
        /\ pc[p] = IF fetched[p] = "raised" THEN "backoff" ELSE "sleep"

\* The fetch raised in a cycle that began with the watermark set.
C9_Witness ==
    \E p \in Tasks :
        /\ FetchFailed(p) /\ fetched[p] = "raised"
        /\ last_sent_article_date # None

\* The step of task p in which its send raised.
SendRaised(p) ==
    /\ pc[p] \in {"send", "fbsend"}
    /\ attempts'[p] # <<>>
    /\ attempts'[p][Len(attempts'[p])].result = "raised"

\* The step of task p in which its fetch or a date conversion raised.
CycleRaised(p) == fault[p] = "none" /\ fault'[p] \in {"fetch", "date"}

\* C10 as claimed (the routing of faults): every fault of a cycle, the
\* fault of a send included, leads to the error backoff sleep.
C10_EveryFaultBacksOff ==
    [][\A p \in Tasks :
          (SendRaised(p) \/ CycleRaised(p)) => pc'[p] = "backoff"]_vars

\* C10 as amended: no fault ends the loop.  A fault of a send is caught in
\* place and the pacing sleep follows; every other fault leads to the error
\* backoff sleep and from there to a new fetch; a started loop (one that
\* has left "idle" for good) awaits a new fetch again and again.
C10_LoopNeverEnds ==
    /\ [][\A p \in Tasks :
            /\ SendRaised(p) => pc'[p] \in {"pace", "fbpace"}
            /\ CycleRaised(p) => pc'[p] = "backoff"
            /\ pc[p] = "backoff" => pc'[p] \in {"backoff", "fetch"}]_vars
    /\ \A p \in Tasks : []<>(pc[p] \in {"idle", "fetch"})

\* A loop whose fetch raised awaits its next fetch, after deliveries.
C10_Witness ==
    \E p \in Tasks :
        /\ pc[p] = "fetch" /\ fetched[p] = "raised"
        /\ last_sent_article_date # None

\* The loops that POST /start has started.
Started == {p \in Tasks : pc[p] # "idle"}

\* The next task a POST /start would start.
NextToStart(p) == pc[p] = "idle" /\ \A q \in Tasks : q < p => q \in Started

\* C11: POST /start has no single-instance guard: it starts a further loop
\* whatever loops are already running, so that several loops run at once;
\* an article acknowledged ok twice takes at least two loops (and the
\* witness reaches one).
C11_StartHasNoGuard ==
    /\ \A p \in Tasks : NextToStart(p) => ENABLED StartBot(p)
    /\ redelivered # {} => Cardinality(Started) >= 2

\* Two loops run, and each of them got the same article acknowledged ok in
\* its current cycle.
C11_Witness ==
    \E p, q \in Tasks :
        /\ p # q
        /\ \E m \in 1..Len(attempts[p]), n \in 1..Len(attempts[q]) :
              /\ attempts[p][m].entry = attempts[q][n].entry
              /\ attempts[p][m].result = "ok"
              /\ attempts[q][n].result = "ok"
              /\ attempts[p][m].entry.link \in redelivered

\* C12: under every interleaving of the loops started through POST /start,
\* each write to last_sent_article_date stores a value strictly greater
\* than the one it overwrites, or overwrites None: the watermark never
\* regresses and no lock is needed.
C12_WritesOnlyAdvance ==
    [][last_sent_article_date' # last_sent_article_date =>
          /\ last_sent_article_date' # None
          /\ \/ last_sent_article_date = None
             \/ last_sent_article_date'[1] > last_sent_article_date[1]]_vars

\* The step in which the send of task p returns acknowledged ok.
OkReturned(p) ==
    /\ pc[p] \in {"send", "fbsend"}
    /\ pc'[p] \notin {"send", "fbsend"}
    /\ attempts'[p][Len(attempts'[p])].result = "ok"

\* The latest send of the current cycle of task p that was acknowledged ok,
\* or 0.
LatestOk(p) ==
    LET oks == {n \in 1..Len(attempts[p]) : attempts[p][n].result = "ok"}
    IN  IF oks = {} THEN 0 ELSE CHOOSE n \in oks : \A m \in oks : m <= n

\* C13: last_sent_article_date is written only in the step in which a send
\* returns acknowledged ok, and then becomes the date of the entry sent;
\* every other step leaves it.  So, with one loop, a cycle that delivered
\* has the watermark at the date of its most recent delivery.
C13_WatermarkGating ==
    /\ [][/\ \A p \in Tasks : OkReturned(p) =>
               last_sent_article_date' =
                   EntryDate(attempts'[p][Len(attempts'[p])].entry)
          /\ (\A p \in Tasks : ~OkReturned(p)) =>
               last_sent_article_date' = last_sent_article_date]_vars
    /\ [](\A p \in Tasks : LatestOk(p) # 0 =>
               last_sent_article_date = EntryDate(attempts[p][LatestOk(p)].entry))

\* A cycle delivered an entry and a later send of it failed: the watermark
\* stays at the date of the delivery.
C13_Witness ==
    \E p \in Tasks :
        /\ LatestOk(p) # 0 /\ LatestOk(p) < Len(attempts[p])
        /\ Failed(attempts[p][Len(attempts[p])].result)
        /\ last_sent_article_date = EntryDate(attempts[p][LatestOk(p)].entry)

\* The number of entries of the reversed feed that the main pass of the
\* current cycle of task p has taken through the timestamp test.
Examined(p) ==
    IF pc[p] \in {"send", "pace"} THEN idx[p]
    ELSE IF pc[p] = "backoff" /\ fault[p] = "date" /\ idx[p] > 0
         THEN idx[p] - 1
    ELSE IF pc[p] \in {"sleep", "fbsend", "fbpace"} /\ fetched[p] = "entries"
         THEN Len(entries[p])
    ELSE 0

\* With one loop: the watermark at the moment the j-th entry of the reversed
\* feed was examined, from the sends the cycle made before it.
WmAt(p, j) ==
    LET prior == {n \in AttemptsOf(p, "main") : attempts[p][n].k < j}
    IN  IF prior = {} THEN wm0[p]
        ELSE LET n == CHOOSE x \in prior : \A y \in prior : y <= x
             IN  IF attempts[p][n].result = "ok"
                 THEN EntryDate(attempts[p][n].entry)
                 ELSE attempts[p][n].before

AttemptedAt(p, j) ==
    \E n \in AttemptsOf(p, "main") : attempts[p][n].k = j

\* C14: the entries are examined in reversed feed order; an examined entry
\* is passed over, whatever its categories, exactly when the watermark is
\* set and its date is not strictly greater than the watermark of that
\* moment (updates of the same cycle included); otherwise its categories
\* decide.  An entry dated at the watermark is never attempted.
C14_TimestampGate ==
    \A p \in Tasks :
        /\ \A j \in 1..Examined(p) :
              LET e == ReversedAt(entries[p], j)
                  w == WmAt(p, j)
              IN  /\ Dated(e)
                  /\ (w # None /\ EntryDate(e)[1] <= w[1]) => ~AttemptedAt(p, j)
                  /\ (w = None \/ EntryDate(e)[1] > w[1]) =>
                        (AttemptedAt(p, j) <=>
                           get_categories(e) \cap INTERESTED_CATEGORIES # {})
        /\ \A m, n \in AttemptsOf(p, "main") :
              m < n => attempts[p][m].k < attempts[p][n].k
        /\ \A n \in 1..Len(attempts[p]) :
              attempts[p][n].before # EntryDate(attempts[p][n].entry)

\* A cycle that began with the watermark unset passed over a matching entry
\* because an earlier delivery of the same cycle had set the watermark at or
\* above its date.
C14_Witness ==
    \E p \in Tasks :
        /\ CycleOver(p) /\ wm0[p] = None
        /\ \E j \in 1..Examined(p) :
              LET e == ReversedAt(entries[p], j)
              IN  /\ IsInterested(e)
                  /\ WmAt(p, j) # None
                  /\ EntryDate(e)[1] <= WmAt(p, j)[1]
                  /\ ~AttemptedAt(p, j)

\* The sanitized tag set of the entry meets the allowed categories.
Matches(entry) == get_categories(entry) \cap INTERESTED_CATEGORIES # {}

\* C15: with one loop, an entry whose tag set does not meet the allowed
\* categories is sent only by the cold-start fallback, so only while the
\* watermark is unset; every send begun with the watermark set is for a
\* matching entry, and a non-matching entry moves the watermark only as the
\* fallback.
C15_CategoryGate ==
    \A p \in Tasks : \A n \in 1..Len(attempts[p]) :
        LET a == attempts[p][n]
        IN  /\ a.pass = "main" => Matches(a.entry)
            /\ ~Matches(a.entry) => (a.pass = "fallback" /\ a.before = None)
            /\ a.before # None => Matches(a.entry)

\* With the watermark set, a cycle sent a matching entry and has ended
\* without sending a non-matching entry that is newer than the watermark.
C15_Witness ==
    \E p \in Tasks :
        /\ CycleOver(p) /\ wm0[p] # None
        /\ AttemptsOf(p, "main") # {}
        /\ \E e \in FeedEntries(p) :
              /\ Dated(e) /\ ~Matches(e) /\ ~Attempted(p, e)
              /\ EntryDate(e)[1] > last_sent_article_date[1]

\* C16: every send of a loop, of the main pass or the fallback, whatever
\* its result, is followed by the pacing sleep before the loop does anything
\* else: a further send of the cycle begins only out of a pacing sleep, and
\* a cycle that sent ends only out of a pacing sleep.
C16_PacingAfterEverySend ==
    [][\A p \in Tasks :
          /\ (pc[p] \in {"send", "fbsend"} /\ pc'[p] # pc[p])
                => pc'[p] = (IF pc[p] = "send" THEN "pace" ELSE "fbpace")
          /\ (Len(attempts'[p]) > Len(attempts[p]) /\ attempts[p] # <<>>)
                => pc[p] = "pace"
          /\ (attempts[p] # <<>> /\ pc'[p] \in {"sleep", "backoff"}
                /\ pc[p] \notin {"sleep", "backoff"})
                => pc[p] \in {"pace", "fbpace"}]_vars

\* A loop is in the pacing sleep after its second send of the cycle, the
\* first having raised.
C16_Witness ==
    \E p \in Tasks :
        /\ pc[p] = "pace" /\ Len(attempts[p]) = 2
        /\ attempts[p][1].result = "raised"
        /\ attempts[p][2].result = "not_ok"

\* The date of the article with link l.
LinkDate(l) == EntryDate(EntryOf(l[1], l[2]))

\* C17: with one loop, once an entry dated at or after E has been
\* acknowledged ok, E is not attempted and not delivered any more: a send,
\* the retry of a failed one included, begins only while the watermark is
\* unset or below the date of its entry, and so only while every article
\* delivered so far is older than the entry.
C17_NoRetryBehindWatermark ==
    /\ [](\A p \in Tasks : pc[p] \in {"send", "fbsend"} =>
            LET a == attempts[p][Len(attempts[p])]
            IN  /\ a.before = None \/ a.before[1] < EntryDate(a.entry)[1]
                /\ \A l \in delivered : LinkDate(l)[1] < EntryDate(a.entry)[1])
    /\ [][\A l \in delivered' \ delivered : \A d \in delivered :
             LinkDate(d)[1] < LinkDate(l)[1]]_vars

\* A cycle on the unchanged feed, after a cycle in which a send failed, has
\* ended without any send: the feed holds a matching entry that was never
\* delivered and whose date the watermark has reached.
C17_Witness ==
    \E p \in Tasks :
        /\ CycleOver(p) /\ pc[p] = "sleep" /\ rerun[p] /\ prevFailed[p]
        /\ attempts[p] = <<>>
        /\ last_sent_article_date # None
        /\ \E e \in FeedEntries(p) :
              /\ Dated(e) /\ Matches(e) /\ e.link \notin delivered
              /\ EntryDate(e)[1] <= last_sent_article_date[1]

\* The first position of the reversed feed of task p whose date conversion
\* raises, or 0.
FirstUndated(p) ==
    LET bad == {j \in 1..Len(entries[p]) : DateRaises(ReversedAt(entries[p], j))}
    IN  IF bad = {} THEN 0 ELSE CHOOSE j \in bad : \A i \in bad : j <= i

\* C18: with one loop, a cycle on a feed with an entry whose date conversion
\* raises stops at the first such entry of the reversed feed and goes to the
\* error backoff, keeping the watermark its earlier sends wrote; it sends
\* nothing at or behind that entry and no fallback.  This holds in every
\* cycle, so on the unchanged feed every later cycle stops there too.
C18_CycleStopsAtUndatedEntry ==
    \A p \in Tasks :
        (fetched[p] = "entries" /\ pc[p] # "fetch" /\ FirstUndated(p) # 0) =>
            /\ \A n \in 1..Len(attempts[p]) :
                  /\ attempts[p][n].pass = "main"
                  /\ attempts[p][n].k < FirstUndated(p)
            /\ pc[p] \in {"send", "pace", "backoff"}
            /\ pc[p] = "backoff" =>
                  /\ fault[p] = "date"
                  /\ idx[p] = FirstUndated(p)
                  /\ last_sent_article_date = WmAt(p, FirstUndated(p))

\* A cycle on the unchanged feed stopped again at the undated entry; the
\* watermark of an earlier delivery is kept, and a newer matching entry
\* behind the undated one is still unsent.
C18_Witness ==
    \E p \in Tasks :
        /\ rerun[p] /\ pc[p] = "backoff" /\ fault[p] = "date"
        /\ idx[p] > 1
        /\ last_sent_article_date # None
        /\ \E j \in (idx[p] + 1)..Len(entries[p]) :
              LET e == ReversedAt(entries[p], j)
              IN  /\ Dated(e) /\ Matches(e) /\ e.link \notin delivered
                  /\ EntryDate(e)[1] > last_sent_article_date[1]

====
